---- MODULE Spec2Model ----
\* The Join Queue Engine of src/src/groupJoiner.js (class GroupJoiner): the link
\* validator, the collections, the processing loop, the pending sweep and the
\* commands, as a state machine. One action is one run of JavaScript between two
\* suspension points (an await on I/O, on the Connector or on a timer).
EXTENDS Integers, Sequences, FiniteSets, Bags, TLC

\* ------------------------------------------------------------------ bounds
MaxBatch == 2       \* longest batch of raw links handed to start / addToQueue
MaxQueue == 2       \* commands that append are cut off when the queue is this long
MaxLoops == 2       \* joinLoop invocations alive at the same time
MaxTicks == 1       \* how often the clock advances
MaxCalls == 3       \* Connector calls made in one behaviour
MaxCommands == 3    \* commands issued in one behaviour
TickMs == 90000000  \* one clock step: 25 hours

\* ------------------------------------------------------- program constants
DefaultMaxRetries == 3        \* config.maxRetries
AutoCancelAfter == 86400000   \* config.autoCancelAfter, 24 hours in ms
CodeLength == 22              \* {22} in the patterns, part.length >= 22
SaveEvery == 5                \* totalAttempted % 5

\* ------------------------------------------------------------------- links
\* A link is the parsed form of its text: scheme "://" host "/" prefix code, or,
\* with codeIn = "query", scheme "://" host "?code=" code; utm says that a
\* tracking parameter (utm_source, ...) follows. The code is named by id, has
\* codeLen characters, and codeChars = "dashed" says that one of its first 22
\* characters is '_' or '-'.
Link(scheme, host, prefix, codeIn, id, len, chars, utm) ==
    [scheme |-> scheme, host |-> host, prefix |-> prefix, codeIn |-> codeIn,
     id |-> id, codeLen |-> len, codeChars |-> chars, utm |-> utm]

RawA == Link("https", "chat.whatsapp.com", "", "path", "A", 22, "alnum", FALSE)
\* the same invite as RawA, written with http and a tracking parameter
RawA2 == Link("http", "chat.whatsapp.com", "", "path", "A", 22, "alnum", TRUE)
RawB == Link("https", "whatsapp.com", "invite/", "path", "B", 22, "alnum", FALSE)
\* https://invalid-link.com/group
RawBad == Link("https", "invalid-link.com", "", "path", "group", 5, "alnum", FALSE)
\* https://chat.whatsapp.com/ABC123DEF456GHI789JKL, a code of 21 characters
RawShort == Link("https", "chat.whatsapp.com", "", "path", "S", 21, "alnum", FALSE)

RawLinks == {RawA, RawA2, RawB, RawBad, RawShort}

\* https://chat.whatsapp.com/ABCDEFGHIJ-KLMNOPQRS_UV, a code with '-' and '_'
RawDashed == Link("https", "chat.whatsapp.com", "", "path", "D", 22, "dashed", FALSE)
\* whatsapp://chat?code=ABCDEFGHIJKLMNOPQRSTUV
RawQuery == Link("whatsapp", "chat", "", "query", "Q", 22, "alnum", FALSE)

\* one link of each shape that isValidWhatsAppGroupLink accepts: the chat host,
\* the invite/ path, a code with '_' or '-', the whatsapp:// form
ShapeLinks == {RawA, RawB, RawDashed, RawQuery}

\* the three patterns of isValidWhatsAppGroupLink; they are not anchored, so a
\* code longer than 22 characters matches too
isValidWhatsAppGroupLink(link) ==
    \/ /\ link.scheme \in {"http", "https"}
       /\ link.host \in {"chat.whatsapp.com", "whatsapp.com"}
       /\ link.codeIn = "path"
       /\ link.prefix \in {"", "invite/"}
       /\ link.codeChars = "alnum"
       /\ link.codeLen >= CodeLength
    \/ /\ link.scheme \in {"http", "https"}
       /\ link.host = "chat.whatsapp.com"
       /\ link.codeIn = "path"
       /\ link.prefix = ""
       /\ link.codeLen >= CodeLength
    \/ /\ link.scheme = "whatsapp"
       /\ link.host = "chat"
       /\ link.codeIn = "query"
       /\ link.codeChars = "alnum"
       /\ link.codeLen >= CodeLength

\* http:// becomes https://, the tracking parameters are deleted
normalizeLink(link) ==
    [link EXCEPT !.scheme = IF link.scheme = "http" THEN "https" ELSE link.scheme,
                 !.utm = FALSE]

NoCode == "none"

\* the first path segment of length >= 22 made of letters and digits only
extractInviteCode(link) ==
    IF /\ link.codeIn = "path"
       /\ link.codeLen >= CodeLength
       /\ link.codeChars = "alnum"
    THEN link.id
    ELSE NoCode

\* ----------------------------------------------------------------- entries
NoTime == -1
NoError == <<>>

\* the GroupLinkEntry that processLinks builds for a valid link
NewEntry(link) ==
    [link |-> normalizeLink(link), attempts |-> 0, status |-> "queued",
     error |-> NoError, pendingSince |-> NoTime]

\* processLinks without the syntax check
processLinksUnchecked(links) ==
    [i \in 1..Len(links) |-> NewEntry(links[i])]

\* processLinks: the entries of the links that pass the syntax check, in order
RECURSIVE processLinks(_)
processLinks(links) ==
    IF links = <<>> THEN <<>>
    ELSE IF isValidWhatsAppGroupLink(Head(links))
         THEN <<NewEntry(Head(links))>> \o processLinks(Tail(links))
         ELSE processLinks(Tail(links))

Batches == UNION {[1..n -> RawLinks] : n \in 1..MaxBatch}
ShapeBatches == UNION {[1..n -> ShapeLinks] : n \in 1..MaxBatch}

\* ------------------------------------------------------------------ errors
\* An error text is the sequence of its words, already in lower case where the
\* code compares it.
ErrRateLimit == <<"rate", "limit", "exceeded">>
ErrNotAuthorized == <<"not-authorized">>
ErrInvalidFormat == <<"invalid", "group", "link", "format">>
ErrExpired == <<"join", "request", "expired", "after", "24", "hours">>

ConnectorErrors == {ErrRateLimit, ErrNotAuthorized}

recoverableErrors ==
    {<<"timeout">>, <<"network">>, <<"temporarily">>, <<"rate", "limit">>,
     <<"too", "many", "requests">>, <<"connection">>, <<"server">>}

\* errorMsg.includes(keyword)
Includes(msg, keyword) ==
    \E i \in 1..Len(msg) :
        /\ i + Len(keyword) - 1 <= Len(msg)
        /\ SubSeq(msg, i, i + Len(keyword) - 1) = keyword

isRecoverableError(error) ==
    \E keyword \in recoverableErrors : Includes(error, keyword)

\* --------------------------------------------------------------- Connector
\* What sock.groupAcceptInvite and sock.groupMetadata do for one call: return a
\* group id, return without one, or throw.
ConnectorOutcomes ==
    {[kind |-> "id", error |-> NoError], [kind |-> "noid", error |-> NoError]}
    \cup {[kind |-> "throw", error |-> e] : e \in ConnectorErrors}

\* joinGroup: what the loop gets back from `await this.joinGroup(group, sock)`.
\* Every throw inside it is caught and returned as a result; kind "rejected"
\* (the promise rejects, and the loop's catch runs) is what it never produces.
joinGroup(group, outcome) ==
    IF extractInviteCode(group.link) = NoCode
    THEN [kind |-> "error", error |-> ErrInvalidFormat]
    ELSE CASE outcome.kind = "id" -> [kind |-> "success", error |-> NoError]
           [] outcome.kind = "noid" -> [kind |-> "pending", error |-> NoError]
           [] outcome.kind = "throw" -> [kind |-> "error", error |-> outcome.error]

\* ------------------------------------------------------------------- state
VARIABLES
    isActive,       \* this.isActive
    joinQueue,      \* this.joinQueue: sequence of entries
    joinedGroups,   \* this.joinedGroups: set of links
    pendingGroups,  \* this.pendingGroups: link -> entry
    failedGroups,   \* this.failedGroups: link -> entry
    stats,          \* this.stats
    maxRetries,     \* this.config.maxRetries
    loops,          \* the joinLoop invocations: where each is suspended, and its `group`
    now,            \* the wall clock, in ms
    calls,          \* how many Connector calls have been made
    commands,       \* how many commands have been issued
    last,           \* the operation that ran last and what it returned
    files,          \* the store: what the files under ./data hold
    checker,        \* the interval timer of startPendingChecker is set
    loading         \* where the init() of the constructor is: the await it is
                    \* suspended in, or "done"

vars == <<isActive, joinQueue, joinedGroups, pendingGroups, failedGroups, stats,
          maxRetries, loops, now, calls, commands, last, files, checker, loading>>

NoLink == Link("", "", "", "", NoCode, 0, "", FALSE)
NoGroup == [link |-> NoLink]
NoReport == [generated |-> FALSE]
Idle == [pc |-> "idle", group |-> NoGroup]

EmptyMap == [l \in {} |-> NoGroup]

\* the store before any write: groupJoinQueue.json, joinedGroups.json,
\* failedGroups.json and pendingGroups.json, each by what it holds
NoProgress == [saved |-> FALSE]
NoFiles ==
    [queue |-> <<>>, joined |-> EmptyMap, failed |-> EmptyMap,
     pending |-> EmptyMap, progress |-> NoProgress]
MapSet(map, link, entry) ==
    [l \in DOMAIN map \cup {link} |-> IF l = link THEN entry ELSE map[l]]
\* a delete that leaves the entry in the map
MapKeepsAll(map, link) == map

MapDelete(map, link) == [l \in DOMAIN map \ {link} |-> map[l]]

QueueLinks(queue) == {queue[i].link : i \in 1..Len(queue)}
Count(link, queue) == Cardinality({i \in 1..Len(queue) : queue[i].link = link})

InitStats ==
    [totalAttempted |-> 0, successful |-> 0, failed |-> 0, pending |-> 0,
     expired |-> 0, startTime |-> NoTime, endTime |-> NoTime, lastJoin |-> NoTime]

\* the constructor, with init() finding no persisted files and starting the
\* pending checker
Init ==
    /\ isActive = FALSE
    /\ joinQueue = <<>>
    /\ joinedGroups = {}
    /\ pendingGroups = EmptyMap
    /\ failedGroups = EmptyMap
    /\ stats = InitStats
    /\ maxRetries = DefaultMaxRetries
    /\ loops = EmptyBag
    /\ now = 0
    /\ calls = 0
    /\ commands = 0
    /\ last = [op |-> "constructor"]
    /\ files = NoFiles
    /\ checker = TRUE
    /\ loading = "done"

\* The engine's fields as one record, so that the methods compose as operators.
Cur ==
    [isActive |-> isActive, joinQueue |-> joinQueue, joinedGroups |-> joinedGroups,
     pendingGroups |-> pendingGroups, failedGroups |-> failedGroups,
     stats |-> stats, report |-> NoReport]

Put(S) ==
    /\ isActive' = S.isActive
    /\ joinQueue' = S.joinQueue
    /\ joinedGroups' = S.joinedGroups
    /\ pendingGroups' = S.pendingGroups
    /\ failedGroups' = S.failedGroups
    /\ stats' = S.stats

\* ----------------------------------------------------------------- methods
\* addToQueue's filter without the duplicate check
NewLinksUnfiltered(S, links) == links

\* addToQueue: the entries of `links` whose link is not in the queue, not joined
\* and not failed, appended
NewLinks(S, links) ==
    SelectSeq(links, LAMBDA e :
        /\ e.link \notin QueueLinks(S.joinQueue)
        /\ e.link \notin S.joinedGroups
        /\ e.link \notin DOMAIN S.failedGroups)

\* addToQueue putting the new entries in front of the queue
addToQueueAtHead(S, links) ==
    [S EXCEPT !.joinQueue = NewLinks(S, links) \o S.joinQueue]

addToQueue(S, links) ==
    [S EXCEPT !.joinQueue = S.joinQueue \o NewLinks(S, links)]

\* a success rate cut off after the first decimal
successRateTruncated(st) ==
    IF st.totalAttempted > 0
    THEN (st.successful * 1000) \div st.totalAttempted
    ELSE 0

\* generateReport's successRate, in tenths of a percent:
\* (successful / totalAttempted * 100).toFixed(1), or 0 with nothing attempted.
\* toFixed(1) gives the nearest tenth, the larger one of two equally near.
successRate(st) ==
    IF st.totalAttempted > 0
    THEN (st.successful * 2000 + st.totalAttempted) \div (2 * st.totalAttempted)
    ELSE 0

\* generateReport: the record it builds from the state at the call
generateReport(S) ==
    [S EXCEPT !.report = [generated |-> TRUE, stats |-> S.stats,
                          successRate |-> successRate(S.stats),
                          queueRemaining |-> Len(S.joinQueue)]]

\* stop, called with isActive true
stop(S, t) ==
    generateReport([S EXCEPT !.isActive = FALSE, !.stats.endTime = t])

handleJoinSuccess(S, group) ==
    [S EXCEPT !.stats.successful = @ + 1,
              !.joinedGroups = @ \cup {group.link},
              !.pendingGroups = MapDelete(@, group.link)]

\* a failure that is only counted, as in the catch block of joinLoop for an
\* error that is not recoverable
handleJoinFailureCounted(S, group, result, t) ==
    [S EXCEPT !.stats.failed = @ + 1]

handleJoinFailure(S, group, result, t) ==
    IF result.kind = "pending"
    THEN [S EXCEPT !.stats.pending = @ + 1,
                   !.pendingGroups =
                       MapSet(@, group.link, [group EXCEPT !.pendingSince = t])]
    ELSE [S EXCEPT !.stats.failed = @ + 1,
                   !.failedGroups =
                       MapSet(@, group.link,
                              [group EXCEPT !.error = result.error,
                                            !.attempts = @ + 1])]

\* the catch block of joinLoop, for a rejected joinGroup
LoopCatch(S, group, error, retries) ==
    LET S1 == [S EXCEPT !.stats.failed = @ + 1]
    IN  IF isRecoverableError(error) /\ group.attempts < retries
        THEN [S1 EXCEPT !.joinQueue =
                            Append(@, [group EXCEPT !.attempts = @ + 1])]
        ELSE S1

\* a joinLoop that attempts the entry at the head without looking whether its
\* link is already joined
LoopTopNoSkip(S, t) ==
    IF S.isActive /\ S.joinQueue # <<>>
    THEN [S |-> [S EXCEPT !.joinQueue = Tail(@)],
          loop |-> [pc |-> "joining", group |-> Head(S.joinQueue)]]
    ELSE IF S.joinQueue = <<>> /\ S.isActive
         THEN LET n == Cardinality(DOMAIN S.pendingGroups)
                  S1 == IF n > 0 THEN [S EXCEPT !.stats.pending = n] ELSE S
              IN  [S |-> stop(S1, t), loop |-> Idle]
         ELSE [S |-> S, loop |-> Idle]

\* a joinLoop that returns at once
LoopTopReturns(S, t) == [S |-> S, loop |-> Idle]

\* joinLoop from the top of its while until it suspends in joinGroup or ends:
\* entries already joined are counted and skipped; when the loop ends with the
\* queue empty and the engine active it calls stop.
RECURSIVE LoopTop(_, _)
LoopTop(S, t) ==
    IF S.isActive /\ S.joinQueue # <<>>
    THEN LET group == Head(S.joinQueue)
             S1 == [S EXCEPT !.joinQueue = Tail(@)]
         IN  IF group.link \in S1.joinedGroups
             THEN LoopTop([S1 EXCEPT !.stats.successful = @ + 1], t)
             ELSE [S |-> S1, loop |-> [pc |-> "joining", group |-> group]]
    ELSE IF S.joinQueue = <<>> /\ S.isActive
         THEN LET n == Cardinality(DOMAIN S.pendingGroups)
                  S1 == IF n > 0 THEN [S EXCEPT !.stats.pending = n] ELSE S
              IN  [S |-> stop(S1, t), loop |-> Idle]
         ELSE [S |-> S, loop |-> Idle]

\* joinLoop after saveProgress: the pause when the queue is not empty, else the
\* top of the while
AfterSave(S, t) ==
    IF S.joinQueue # <<>>
    THEN [S |-> S, loop |-> [pc |-> "delay", group |-> NoGroup]]
    ELSE LoopTop(S, t)

\* a checkpoint after every attempt
CheckpointAlways(st) == TRUE

\* joinLoop: this.stats.totalAttempted % 5 === 0
Checkpoint(st) == st.totalAttempted % SaveEvery = 0

\* joinLoop from the return of joinGroup to its next suspension
AfterJoin(S, group, result, retries, t) ==
    IF result.kind = "rejected"
    THEN [S |-> LoopCatch(S, group, result.error, retries),
          loop |-> [pc |-> "backoff", group |-> NoGroup]]
    ELSE LET S1 == IF result.kind = "success"
                   THEN handleJoinSuccess(S, group)
                   ELSE handleJoinFailure(S, group, result, t)
             S2 == [S1 EXCEPT !.stats.totalAttempted = @ + 1,
                              !.stats.lastJoin = t]
         IN  IF Checkpoint(S2.stats)
             THEN [S |-> S2, loop |-> [pc |-> "saving", group |-> NoGroup]]
             ELSE AfterSave(S2, t)

\* ------------------------------------------------------------------- store
\* The writes, each succeeding. saveQueue, saveFailedGroups and
\* savePendingGroups write the whole collection; saveJoinedGroup and
\* saveFailedGroup read the file, put the one entry in and write it back.
saveQueue(F, queue) == [F EXCEPT !.queue = queue]
saveJoinedGroup(F, group) == [F EXCEPT !.joined = MapSet(@, group.link, group)]
saveFailedGroup(F, group) == [F EXCEPT !.failed = MapSet(@, group.link, group)]
saveFailedGroups(F, failed) == [F EXCEPT !.failed = failed]
savePendingGroups(F, pending) == [F EXCEPT !.pending = pending]

\* saveProgress: join_progress.json gets the queue, the counters, the joined
\* links and, of every pending entry, its link and pendingSince, as they are
\* when it is called
saveProgress(F, S) ==
    [F EXCEPT !.progress =
        [saved |-> TRUE, queue |-> S.joinQueue, stats |-> S.stats,
         joinedGroups |-> S.joinedGroups,
         pendingGroups |->
             {[link |-> l, pendingSince |-> S.pendingGroups[l].pendingSince] :
                 l \in DOMAIN S.pendingGroups}]]

\* ----------------------------------------------------------------- actions
Engine == <<isActive, joinQueue, joinedGroups, pendingGroups, failedGroups,
            stats>>

\* the links a command can name: the canonical form of every raw link
Links == {normalizeLink(r) : r \in RawLinks}

\* the suspended joinLoop invocations are a bag: an invocation that has ended is
\* no longer in it
Suspend(bag, loop) == IF loop = Idle THEN bag ELSE bag (+) SetToBag({loop})

\* A suspended invocation also carries `stopped`: stop() has been called since
\* the start() that made this invocation (history, read by no code).
Resumed(loop, stopped) ==
    IF loop = Idle THEN Idle
    ELSE [pc |-> loop.pc, group |-> loop.group, stopped |-> stopped]

\* stop() was called: every invocation that is still suspended is one of a
\* stopped run
StopLoops(bag) ==
    LET marked == {Resumed(l, TRUE) : l \in BagToSet(bag)}
    IN  [m \in marked |->
            BagCardinality([l \in {x \in BagToSet(bag) : Resumed(x, TRUE) = m}
                               |-> bag[l]])]

\* the invocations after one of them (or start) has run to `run`: it is suspended
\* again unless it has ended, and it may have called stop() at the end
After(run, bag, stopped) ==
    LET rest == Suspend(bag, Resumed(run.loop, stopped))
    IN  IF run.S.report.generated THEN StopLoops(rest) ELSE rest

\* joinGroup calls sock.groupAcceptInvite when the link has an invite code
Calling(loop) ==
    loop.pc = "joining" /\ extractInviteCode(loop.group.link) # NoCode

Command ==
    /\ commands < MaxCommands
    /\ commands' = commands + 1

Called(loop) ==
    /\ calls' = calls + (IF Calling(loop) THEN 1 ELSE 0)
    /\ calls' <= MaxCalls

\* start's guard when the isActive test is left out
AlreadyActiveIgnored(S) == FALSE

\* the guards of start and of stop
AlreadyActive(S) == S.isActive
NotActive(S) == ~S.isActive

\* start's test of the processed batch when it is left out
NoValidLinksIgnored(processed) == FALSE

\* start: processedLinks.length === 0
NoValidLinks(processed) == Len(processed) = 0

\* start(links, sock), up to its await of saveQueue: the call of joinLoop runs
\* the loop to its first suspension
Start(batch) ==
    LET processed == processLinks(batch)
        S1 == addToQueue(Cur, processed)
        S2 == [S1 EXCEPT !.isActive = TRUE,
                         !.stats.startTime = now,
                         !.stats.totalAttempted = 0,
                         !.stats.successful = 0,
                         !.stats.failed = 0,
                         !.stats.pending = 0]
        run == LoopTop(S2, now)
    IN  /\ Command
        /\ IF AlreadyActive(Cur)
           THEN /\ last' = [op |-> "start", success |-> FALSE,
                            message |-> "Group joining already active",
                            report |-> NoReport]
                /\ UNCHANGED <<Engine, loops, calls, files>>
           ELSE IF NoValidLinks(processed)
           THEN /\ last' = [op |-> "start", success |-> FALSE,
                            message |-> "No valid WhatsApp group links found",
                            submitted |-> Len(batch), groups |-> Len(processed),
                            report |-> NoReport]
                /\ UNCHANGED <<Engine, loops, calls, files>>
           ELSE /\ Len(S1.joinQueue) <= MaxQueue
                /\ BagCardinality(loops) < MaxLoops
                /\ Put(run.S)
                /\ loops' = After(run, loops, FALSE)
                /\ Called(run.loop)
                /\ last' = [op |-> "start", success |-> TRUE,
                            message |-> "Group joining started",
                            submitted |-> Len(batch), groups |-> Len(processed),
                            report |-> run.S.report]
                /\ files' = saveQueue(files, run.S.joinQueue)
        /\ UNCHANGED <<maxRetries, now, checker, loading>>

\* stop(); `written` is whether the writeFile calls of generateReport succeed.
\* generateReport has no try/catch, so when a write fails the promise of stop()
\* rejects, after isActive and endTime have been set.
Stop(written) ==
    /\ Command
    /\ IF NotActive(Cur)
       THEN /\ written
            /\ last' = [op |-> "stop", raised |-> FALSE, success |-> FALSE,
                        message |-> "Group joining not active",
                        report |-> NoReport]
            /\ UNCHANGED <<Engine, loops>>
       ELSE /\ Put(stop(Cur, now))
            /\ loops' = StopLoops(loops)
            /\ last' = IF written
                       THEN [op |-> "stop", raised |-> FALSE, success |-> TRUE,
                             message |-> "Group joining stopped",
                             report |-> stop(Cur, now).report]
                       ELSE [op |-> "stop", raised |-> TRUE, report |-> NoReport]
    /\ UNCHANGED <<maxRetries, now, calls, files, checker, loading>>

\* addToQueue(links) with the entries processLinks builds from a batch
AddToQueue(batch) ==
    LET links == processLinks(batch)
        S1 == addToQueue(Cur, links)
    IN  /\ Command
        /\ Len(S1.joinQueue) <= MaxQueue
        /\ Put(S1)
        /\ last' = [op |-> "addToQueue", submitted |-> Len(links),
                    count |-> Len(NewLinks(Cur, links))]
        /\ UNCHANGED <<maxRetries, loops, now, calls, files, checker, loading>>

\* the Connector answers the call loop i waits for, and the loop runs on to its
\* next suspension
JoinDone(loop, outcome) ==
    /\ loop.pc = "joining"
    /\ LET group == loop.group
           result == joinGroup(group, outcome)
           run == AfterJoin(Cur, group, result, maxRetries, now)
       IN  /\ Put(run.S)
           /\ loops' = After(run, loops (-) SetToBag({loop}), loop.stopped)
           /\ Called(run.loop)
           /\ last' = [op |-> "joinLoop", group |-> group, kind |-> result.kind,
                       error |-> result.error, stopped |-> loop.stopped,
                       report |-> run.S.report]
           /\ files' =
                  LET F1 == CASE result.kind = "success" ->
                                     saveJoinedGroup(files, group)
                              [] result.kind = "error" ->
                                     saveFailedGroup(files,
                                         run.S.failedGroups[group.link])
                              [] OTHER -> files
                  IN  IF run.loop.pc = "saving"
                      THEN saveProgress(F1, run.S)
                      ELSE F1
    /\ UNCHANGED <<maxRetries, now, commands, checker, loading>>

\* the write of saveProgress or the timer of delay that a loop waits for ends
LoopResume(loop) ==
    /\ loop.pc \in {"saving", "delay", "backoff"}
    /\ LET run == IF loop.pc = "saving"
                  THEN AfterSave(Cur, now)
                  ELSE LoopTop(Cur, now)
       IN  /\ Put(run.S)
           /\ loops' = After(run, loops (-) SetToBag({loop}), loop.stopped)
           /\ Called(run.loop)
           /\ last' = [op |-> "resume", pc |-> loop.pc,
                       stopped |-> loop.stopped, report |-> run.S.report]
    /\ UNCHANGED <<maxRetries, now, commands, files, checker, loading>>

\* a sweep that finds no entry too old
ExpiredNever(t) == {}

\* a sweep that takes every pending entry for too old
ExpiredAll(t) == DOMAIN pendingGroups

\* checkPendingGroups(), the sweep of the interval timer
Expired(t) ==
    {l \in DOMAIN pendingGroups : t - pendingGroups[l].pendingSince > AutoCancelAfter}

CheckPendingGroups ==
    LET gone == Expired(now)
    IN  /\ checker
        /\ failedGroups' =
               [l \in DOMAIN failedGroups \cup gone |->
                   IF l \in gone
                   THEN [pendingGroups[l] EXCEPT !.status = "expired",
                                                 !.error = ErrExpired]
                   ELSE failedGroups[l]]
        /\ pendingGroups' = [l \in DOMAIN pendingGroups \ gone |-> pendingGroups[l]]
        /\ stats' = [stats EXCEPT !.expired = @ + Cardinality(gone)]
        /\ last' = [op |-> "checkPendingGroups", expired |-> Cardinality(gone)]
        /\ files' = IF gone # {}
                    THEN savePendingGroups(saveFailedGroups(files, failedGroups'),
                                           pendingGroups')
                    ELSE files
        /\ UNCHANGED <<isActive, joinQueue, joinedGroups, maxRetries, loops, now,
                       calls, commands, checker, loading>>

\* cancelPending without the change of status
CancelledUnmarked(entry) == entry

\* cancelPending: group.status = 'cancelled'
Cancelled(entry) == [entry EXCEPT !.status = "cancelled"]

\* cancelPending(link)
CancelPending(link) ==
    /\ Command
    /\ IF link \in DOMAIN pendingGroups
       THEN /\ failedGroups' =
                   MapSet(failedGroups, link, Cancelled(pendingGroups[link]))
            /\ pendingGroups' = MapDelete(pendingGroups, link)
            /\ last' = [op |-> "cancelPending", success |-> TRUE,
                        message |-> "Pending join cancelled", link |-> link]
            /\ files' = savePendingGroups(saveFailedGroups(files, failedGroups'),
                                          pendingGroups')
       ELSE /\ last' = [op |-> "cancelPending", success |-> FALSE,
                        message |-> "Group not found in pending list",
                        link |-> link]
            /\ UNCHANGED <<pendingGroups, failedGroups, files>>
    /\ UNCHANGED <<isActive, joinQueue, joinedGroups, stats, maxRetries, loops,
                   now, calls, checker, loading>>

\* the failed entries in the order Array.from(this.failedGroups.values()) gives
\* them; the model keeps no insertion order, so any order is possible
RetriedKeepsAttempts(entry) == [entry EXCEPT !.status = "queued"]

Retried(entry) == [entry EXCEPT !.attempts = 0, !.status = "queued"]

RECURSIVE Orders(_)
Orders(set) ==
    IF set = {} THEN {<<>>}
    ELSE UNION {{<<x>> \o rest : rest \in Orders(set \ {x})} : x \in set}

\* retryFailedGroups(link), link = NoLink for the call without an argument
RetryFailedGroups(link) ==
    /\ Command
    /\ IF link # NoLink
       THEN IF link \in DOMAIN failedGroups
            THEN /\ joinQueue' = Append(joinQueue, Retried(failedGroups[link]))
                 /\ failedGroups' = MapDelete(failedGroups, link)
                 /\ last' = [op |-> "retryFailedGroups", link |-> link, count |-> 1]
            ELSE /\ last' = [op |-> "retryFailedGroups", link |-> link, count |-> 0]
                 /\ UNCHANGED <<joinQueue, failedGroups>>
       ELSE \E order \in Orders(DOMAIN failedGroups) :
                /\ joinQueue' = joinQueue \o
                       [k \in 1..Len(order) |-> Retried(failedGroups[order[k]])]
                /\ failedGroups' = EmptyMap
                /\ last' = [op |-> "retryFailedGroups", link |-> link,
                            count |-> Len(order)]
    /\ Len(joinQueue') <= MaxQueue
    /\ files' = IF last'.count > 0
                THEN saveFailedGroups(saveQueue(files, joinQueue'), failedGroups')
                ELSE files
    /\ UNCHANGED <<isActive, joinedGroups, pendingGroups, stats, maxRetries,
                   loops, now, calls, checker, loading>>

\* a filter that takes out only the first entry with the link
removeFromQueueFirst(queue, link) ==
    IF \A i \in 1..Len(queue) : queue[i].link # link
    THEN queue
    ELSE LET i == CHOOSE k \in 1..Len(queue) :
                      /\ queue[k].link = link
                      /\ \A j \in 1..(k - 1) : queue[j].link # link
         IN  SubSeq(queue, 1, i - 1) \o SubSeq(queue, i + 1, Len(queue))

\* removeFromQueue: this.joinQueue.filter(group => group.link !== link)
removeFromQueue(queue, link) ==
    SelectSeq(queue, LAMBDA group : group.link # link)

\* removeFromQueue(link)
RemoveFromQueue(link) ==
    /\ Command
    /\ joinQueue' = removeFromQueue(joinQueue, link)
    /\ last' = [op |-> "removeFromQueue", link |-> link,
                count |-> Len(joinQueue) - Len(joinQueue')]
    /\ files' = IF last'.count > 0 THEN saveQueue(files, joinQueue') ELSE files
    /\ UNCHANGED <<isActive, joinedGroups, pendingGroups, failedGroups, stats,
                   maxRetries, loops, now, calls, checker, loading>>

\* clearQueue()
ClearQueue ==
    /\ Command
    /\ joinQueue' = <<>>
    /\ last' = [op |-> "clearQueue", count |-> Len(joinQueue)]
    /\ files' = saveQueue(files, joinQueue')
    /\ UNCHANGED <<isActive, joinedGroups, pendingGroups, failedGroups, stats,
                   maxRetries, loops, now, calls, checker, loading>>

\* time passes
Tick ==
    /\ now < MaxTicks * TickMs
    /\ now' = now + TickMs
    /\ last' = [op |-> "tick"]
    /\ UNCHANGED <<Engine, maxRetries, loops, calls, commands, files, checker, loading>>

\* every step but the Connector's answer
Others ==
    \/ \E batch \in Batches : Start(batch)
    \/ \E written \in BOOLEAN : Stop(written)
    \/ \E batch \in Batches : AddToQueue(batch)
    \/ \E loop \in BagToSet(loops) : LoopResume(loop)
    \/ CheckPendingGroups
    \/ \E link \in Links : CancelPending(link)
    \/ \E link \in Links \cup {NoLink} : RetryFailedGroups(link)
    \/ \E link \in Links : RemoveFromQueue(link)
    \/ ClearQueue
    \/ Tick

Next ==
    \/ Others
    \/ \E loop \in BagToSet(loops), outcome \in ConnectorOutcomes :
           JoinDone(loop, outcome)

Spec == Init /\ [][Next]_vars

\* The engine after updateConfig({maxRetries: 2}), with a Connector that throws
\* "rate limit exceeded" on every call.
InitRateLimit ==
    /\ isActive = FALSE
    /\ joinQueue = <<>>
    /\ joinedGroups = {}
    /\ pendingGroups = EmptyMap
    /\ failedGroups = EmptyMap
    /\ stats = InitStats
    /\ maxRetries = DefaultMaxRetries - 1
    /\ loops = EmptyBag
    /\ now = 0
    /\ calls = 0
    /\ commands = 0
    /\ last = [op |-> "updateConfig"]
    /\ files = NoFiles
    /\ checker = TRUE
    /\ loading = "done"

NextRateLimit ==
    \/ Others
    \/ \E loop \in BagToSet(loops) :
           JoinDone(loop, [kind |-> "throw", error |-> ErrRateLimit])

SpecRateLimit == InitRateLimit /\ [][NextRateLimit]_vars

\* One run left to itself: start() is the only command, the Connector answers
\* every call and every timer of the loop fires.
Answered ==
    \E loop \in BagToSet(loops), outcome \in ConnectorOutcomes :
        JoinDone(loop, outcome)

Resumes == \E loop \in BagToSet(loops) : LoopResume(loop)

NextDrain ==
    \/ \E batch \in Batches : commands = 0 /\ Start(batch)
    \/ Answered
    \/ Resumes
    \/ Tick

SpecDrain ==
    Init /\ [][NextDrain]_vars /\ WF_vars(Answered) /\ WF_vars(Resumes)

\* ------------------------------------------------------------- the store
\* the files init() reads
FileNames == {"queue", "joined", "failed"}

\* a load where one unreadable file leaves every collection empty
ReadableAllOrNone(unreadable, name) == unreadable = {}

\* loadQueue, loadJoinedGroupsData, loadFailedGroupsData: each catches the
\* error of its own readFile and JSON.parse
Readable(unreadable, name) == name \notin unreadable

\* init() past its mkdir: the collections loaded from the store F when the
\* files in `unreadable` are missing or do not parse. There is no loader for
\* pendingGroups.json.
init(F, unreadable) ==
    [joinQueue |-> IF Readable(unreadable, "queue") THEN F.queue ELSE <<>>,
     joinedGroups |-> IF Readable(unreadable, "joined")
                      THEN DOMAIN F.joined ELSE {},
     failedGroups |-> IF Readable(unreadable, "failed")
                      THEN F.failed ELSE EmptyMap]

\* The process is started again: the constructor and init(). `mkdir` is whether
\* fs.mkdir succeeds; when it throws, init's catch skips the loads and
\* startPendingChecker. The loops and timers of the old process are gone.
Restart(unreadable, mkdir) ==
    LET loaded == IF mkdir THEN init(files, unreadable) ELSE init(NoFiles, {})
    IN  /\ Command
        /\ mkdir \/ unreadable = {}
        /\ isActive' = FALSE
        /\ joinQueue' = loaded.joinQueue
        /\ joinedGroups' = loaded.joinedGroups
        /\ pendingGroups' = EmptyMap
        /\ failedGroups' = loaded.failedGroups
        /\ stats' = InitStats
        /\ loops' = EmptyBag
        /\ checker' = mkdir
        /\ loading' = "done"
        /\ last' = [op |-> "init", unreadable |-> unreadable, mkdir |-> mkdir]
        /\ UNCHANGED <<maxRetries, now, calls, files>>

\* the engine with restarts of its process
NextStore ==
    \/ Others
    \/ Answered
    \/ \E unreadable \in SUBSET FileNames, mkdir \in BOOLEAN :
           Restart(unreadable, mkdir)

SpecStore == Init /\ [][NextStore]_vars

\* One process from its start: init() with its mkdir succeeding or not, then
\* runs, cancellations, the clock and the sweep. The Connector answers every
\* call, every timer of the loop fires, time passes, and the interval timer of
\* the checker, once set, fires again and again.
NextSweep ==
    \/ \E mkdir \in BOOLEAN : commands = 0 /\ Restart({}, mkdir)
    \/ \E batch \in Batches : commands <= 1 /\ Start(batch)
    \/ \E link \in Links : CancelPending(link)
    \/ Answered
    \/ Resumes
    \/ Tick
    \/ CheckPendingGroups

SpecSweep ==
    /\ Init
    /\ [][NextSweep]_vars
    /\ WF_vars(Answered)
    /\ WF_vars(Resumes)
    /\ WF_vars(Tick)
    /\ WF_vars(CheckPendingGroups)

\* The constructor has returned and its init(), which it does not await, is
\* suspended in fs.mkdir.
InitBoot ==
    /\ isActive = FALSE
    /\ joinQueue = <<>>
    /\ joinedGroups = {}
    /\ pendingGroups = EmptyMap
    /\ failedGroups = EmptyMap
    /\ stats = InitStats
    /\ maxRetries = DefaultMaxRetries
    /\ loops = EmptyBag
    /\ now = 0
    /\ calls = 0
    /\ commands = 0
    /\ last = [op |-> "constructor"]
    /\ files = NoFiles
    /\ checker = FALSE
    /\ loading = "mkdir"

\* init() runs on from the await it is suspended in to the next one; `ok` is
\* whether the mkdir or the read of the file succeeded. loadQueue assigns
\* this.joinQueue, from the file or [] when it cannot be read; the two other
\* loads add what their file holds to the collection.
InitStep(ok) ==
    /\ loading # "done"
    /\ CASE loading = "mkdir" ->
             /\ loading' = IF ok THEN "loadQueue" ELSE "done"
             /\ UNCHANGED <<joinQueue, joinedGroups, failedGroups, checker>>
         [] loading = "loadQueue" ->
             /\ joinQueue' = IF ok THEN files.queue ELSE <<>>
             /\ loading' = "loadJoinedGroups"
             /\ UNCHANGED <<joinedGroups, failedGroups, checker>>
         [] loading = "loadJoinedGroups" ->
             /\ joinedGroups' =
                    joinedGroups \cup (IF ok THEN DOMAIN files.joined ELSE {})
             /\ loading' = "loadFailedGroups"
             /\ UNCHANGED <<joinQueue, failedGroups, checker>>
         [] loading = "loadFailedGroups" ->
             /\ failedGroups' =
                    IF ok
                    THEN [l \in DOMAIN failedGroups \cup DOMAIN files.failed |->
                             IF l \in DOMAIN files.failed
                             THEN files.failed[l] ELSE failedGroups[l]]
                    ELSE failedGroups
             /\ checker' = TRUE
             /\ loading' = "done"
             /\ UNCHANGED <<joinQueue, joinedGroups>>
    /\ last' = [op |-> loading, ok |-> ok]
    /\ UNCHANGED <<isActive, pendingGroups, stats, maxRetries, loops, now,
                   calls, commands, files>>

\* the engine used while init() is still loading
NextBoot ==
    \/ \E ok \in BOOLEAN : InitStep(ok)
    \/ \E batch \in Batches : Start(batch)
    \/ \E batch \in Batches : AddToQueue(batch)
    \/ Answered
    \/ Resumes

SpecBoot == InitBoot /\ [][NextBoot]_vars

\* The engine fed with links of every accepted shape: one start(), then
\* addToQueue calls, the Connector's answers and the loop's timers.
NextShapes ==
    \/ \E batch \in ShapeBatches : commands = 0 /\ Start(batch)
    \/ \E batch \in ShapeBatches : commands > 0 /\ AddToQueue(batch)
    \/ Answered
    \/ Resumes

SpecShapes == Init /\ [][NextShapes]_vars

\* -------------------------------------------------------------- properties
AllLinks ==
    QueueLinks(joinQueue) \cup joinedGroups \cup DOMAIN pendingGroups
        \cup DOMAIN failedGroups

Membership(link) ==
    (IF link \in QueueLinks(joinQueue) THEN 1 ELSE 0)
        + (IF link \in joinedGroups THEN 1 ELSE 0)
        + (IF link \in DOMAIN pendingGroups THEN 1 ELSE 0)
        + (IF link \in DOMAIN failedGroups THEN 1 ELSE 0)

\* the Connector calls that have not been answered yet
CallsInFlight ==
    BagCardinality([loop \in {l \in BagToSet(loops) : Calling(l)} |-> loops[loop]])

\* C1: no canonical link is in more than one of the queue, the joined-set, the
\* pending-set and the failed-set.
C1_SingleMembership == \A link \in AllLinks : Membership(link) <= 1

\* C2: at most one Connector join call is in flight at every moment.
C2_OneCallInFlight == CallsInFlight <= 1

\* C3: an attempt that ends in an error classified recoverable, with attempts
\* below maxRetries, puts the entry at the tail of the queue with attempts + 1
\* and not in the failed-set; any other error puts it in the failed-set with
\* the error text, and the failed counter goes up by one.
C3_RecoverableRequeued ==
    [][(last'.op = "joinLoop" /\ last'.kind = "error") =>
          LET group == last'.group
          IN  IF isRecoverableError(last'.error) /\ group.attempts < maxRetries
              THEN /\ joinQueue' # <<>>
                   /\ joinQueue'[Len(joinQueue')] = [group EXCEPT !.attempts = @ + 1]
                   /\ group.link \notin DOMAIN failedGroups'
              ELSE /\ group.link \in DOMAIN failedGroups'
                   /\ failedGroups'[group.link].error = last'.error
                   /\ stats'.failed = stats.failed + 1]_vars

\* C4: with maxRetries = 2 and a Connector that always throws "rate limit
\* exceeded", an entry reaches the failed-set only after its retries: with
\* attempts equal to maxRetries or maxRetries + 1, and the error text kept.
C4_FailedAfterRetries ==
    \A link \in DOMAIN failedGroups :
        /\ failedGroups[link].error = ErrRateLimit
        /\ failedGroups[link].attempts \in {maxRetries, maxRetries + 1}

\* C5: right after the loop records a successful join, the link is in the
\* joined-set and in no other collection, and successful went up by one.
C5_JoinedOnly ==
    [][(last'.op = "joinLoop" /\ last'.kind = "success") =>
          LET link == last'.group.link
          IN  /\ link \in joinedGroups'
              /\ link \notin QueueLinks(joinQueue')
              /\ link \notin DOMAIN pendingGroups'
              /\ link \notin DOMAIN failedGroups'
              /\ stats'.successful = stats.successful + 1]_vars

\* C6: right after a pending-approval answer, the entry is in the pending-set
\* with pendingSince set and in no other collection, and pending went up by one.
C6_PendingOnly ==
    [][(last'.op = "joinLoop" /\ last'.kind = "pending") =>
          LET link == last'.group.link
          IN  /\ link \in DOMAIN pendingGroups'
              /\ pendingGroups'[link].pendingSince = now
              /\ link \notin QueueLinks(joinQueue')
              /\ link \notin joinedGroups'
              /\ link \notin DOMAIN failedGroups'
              /\ stats'.pending = stats.pending + 1]_vars

\* C7: addToQueue and start append no entry whose link is in the queue, joined
\* or failed at the call, and addToQueue returns the number of entries it
\* appended.
C7_NoSecondSubmission ==
    [][/\ (last'.op = "addToQueue" \/ (last'.op = "start" /\ last'.success)) =>
             \A link \in QueueLinks(joinQueue) \cup joinedGroups
                             \cup DOMAIN failedGroups :
                 Count(link, joinQueue') <= Count(link, joinQueue)
       /\ last'.op = "addToQueue" =>
             /\ last'.count = Len(joinQueue') - Len(joinQueue)
             /\ SubSeq(joinQueue', 1, Len(joinQueue)) = joinQueue]_vars

\* a submission that was rejected in part or in whole
C7_Witness ==
    /\ last.op = "addToQueue"
    /\ last.count < last.submitted
    /\ joinQueue # <<>>

\* C8: the queue holds at most one entry per canonical link.
C8_QueueUnique == \A link \in QueueLinks(joinQueue) : Count(link, joinQueue) = 1

\* C9: a link that does not match the invite-link syntax is in no collection
\* and in no join attempt.
C9_OnlyValidLinks ==
    \A raw \in RawLinks :
        ~isValidWhatsAppGroupLink(raw) =>
            /\ normalizeLink(raw) \notin AllLinks
            /\ \A loop \in BagToSet(loops) : loop.group.link # normalizeLink(raw)

\* a batch with an invalid link was started, and an attempt is under way
C9_Witness ==
    /\ last.op = "start"
    /\ last.success
    /\ last.groups < last.submitted
    /\ CallsInFlight = 1

\* C10: start while active and stop while inactive fail and change nothing; no
\* loop is started and no report is generated.
C10_WrongRunState ==
    [][/\ (last'.op = "start" /\ isActive) =>
             /\ ~last'.success
             /\ last'.report = NoReport
             /\ UNCHANGED <<Engine, loops, calls>>
       /\ (last'.op = "stop" /\ ~isActive) =>
             /\ ~last'.success
             /\ last'.report = NoReport
             /\ UNCHANGED <<Engine, loops, calls>>]_vars

\* start was refused while a loop of the running engine waits for the Connector
C10_Witness ==
    /\ last.op = "start"
    /\ ~last.success
    /\ isActive
    /\ CallsInFlight = 1

\* C11: start with a batch in which no link passes validation fails with "No
\* valid WhatsApp group links found" and changes nothing: the engine stays
\* inactive, no loop is started, the queue, the sets and the stats are unchanged.
C11_NoValidLinks ==
    [][(last'.op = "start" /\ ~isActive /\ last'.groups = 0) =>
          /\ ~last'.success
          /\ last'.message = "No valid WhatsApp group links found"
          /\ last'.report = NoReport
          /\ UNCHANGED <<Engine, loops, calls>>]_vars

\* start was refused for a batch of invalid links only, with entries waiting
C11_Witness ==
    /\ last.op = "start"
    /\ ~last.success
    /\ last.message = "No valid WhatsApp group links found"
    /\ last.submitted = MaxBatch
    /\ joinQueue # <<>>

\* C12: right after a successful start, totalAttempted, successful, failed,
\* pending and expired are 0 and endTime and lastJoin carry no value of the run
\* before. (Stated for a start that finds no joined link in the queue, so that
\* the new loop has counted nothing yet.)
C12_StatsReset ==
    [][(/\ last'.op = "start"
        /\ last'.success
        /\ QueueLinks(joinQueue) \cap joinedGroups = {}) =>
          /\ stats'.totalAttempted = 0
          /\ stats'.successful = 0
          /\ stats'.failed = 0
          /\ stats'.pending = 0
          /\ stats'.expired = 0
          /\ stats'.endTime = NoTime
          /\ stats'.lastJoin = NoTime]_vars

Unsettled ==
    Len(joinQueue)
        + BagCardinality([loop \in {l \in BagToSet(loops) : l.pc = "joining"}
                             |-> loops[loop]])

Attempting(bag, group) ==
    BagCardinality([loop \in {l \in BagToSet(bag) :
                                 l.pc = "joining" /\ l.group = group}
                       |-> bag[loop]])

\* C15: the queue is first in, first out. In a step that is not removeFromQueue
\* or clearQueue, k entries leave at the head and new ones arrive at the tail:
\* the entries that stay keep their order in front of every new one, an entry
\* leaves only because it is already joined or because its attempt starts, and
\* an attempt starts only for the entry at the head.
C15_Fifo ==
    [][last'.op \notin {"removeFromQueue", "clearQueue"} =>
          LET old == Len(joinQueue)
              NewAttempt(group) == Attempting(loops', group) > Attempting(loops, group)
              Attempts == {l.group : l \in BagToSet(loops')}
          IN  \E k \in 0..(old + MaxBatch) :
                  /\ Len(joinQueue') + k >= old
                  /\ \A i \in (k + 1)..old : joinQueue'[i - k] = joinQueue[i]
                  /\ \A i \in 1..(IF k < old THEN k ELSE old) :
                         \/ joinQueue[i].link \in joinedGroups
                         \/ i = k /\ NewAttempt(joinQueue[i])
                  /\ \A group \in Attempts :
                         NewAttempt(group) =>
                             k >= 1 /\ (k <= old => group = joinQueue[k])]_vars

\* a retried entry stands behind the entry that was queued before it
C15_Witness ==
    /\ last.op = "retryFailedGroups"
    /\ last.count = 1
    /\ Len(joinQueue) = 2
    /\ joinQueue[2].link = last.link
    /\ joinQueue[1].link # last.link

\* C16: after a sweep every pending entry older than autoCancelAfter is in the
\* failed-set with status expired and not in the pending-set, and stats.expired
\* has gone up by the number of these entries.
C16_SweepExpires ==
    [][last'.op = "checkPendingGroups" =>
          LET old == {l \in DOMAIN pendingGroups :
                         now - pendingGroups[l].pendingSince > AutoCancelAfter}
          IN  /\ \A l \in old :
                     /\ l \in DOMAIN failedGroups'
                     /\ failedGroups'[l].status = "expired"
                     /\ l \notin DOMAIN pendingGroups'
              /\ stats'.expired = stats.expired + Cardinality(old)
              /\ last'.expired = Cardinality(old)]_vars

\* a sweep has expired an entry
C16_Witness ==
    /\ last.op = "checkPendingGroups"
    /\ last.expired >= 1
    /\ stats.expired >= 1
    /\ \E l \in DOMAIN failedGroups : failedGroups[l].status = "expired"

\* C17: a sweep that follows a sweep changes no collection and no counter, and
\* every sweep leaves the pending entries alone that are not older than
\* autoCancelAfter.
C17_SweepIdempotent ==
    [][last'.op = "checkPendingGroups" =>
          /\ last.op = "checkPendingGroups" => UNCHANGED Engine
          /\ \A l \in DOMAIN pendingGroups :
                 now - pendingGroups[l].pendingSince <= AutoCancelAfter =>
                     /\ l \in DOMAIN pendingGroups'
                     /\ pendingGroups'[l] = pendingGroups[l]
                     /\ (l \in DOMAIN failedGroups =>
                            /\ l \in DOMAIN failedGroups'
                            /\ failedGroups'[l] = failedGroups[l])]_vars

\* a sweep after the one that expired an entry: nothing to expire, a younger
\* entry still pending
C17_Witness ==
    /\ last.op = "checkPendingGroups"
    /\ last.expired = 0
    /\ stats.expired >= 1
    /\ pendingGroups # EmptyMap

\* C18: cancelPending of a pending link returns success, puts the entry in the
\* failed-set with status cancelled and takes it out of the pending-set, however
\* old it is; of any other link it returns a failure and changes nothing.
C18_CancelPending ==
    [][last'.op = "cancelPending" =>
          LET link == last'.link
          IN  IF link \in DOMAIN pendingGroups
              THEN /\ last'.success
                   /\ link \in DOMAIN failedGroups'
                   /\ failedGroups'[link].status = "cancelled"
                   /\ link \notin DOMAIN pendingGroups'
              ELSE /\ ~last'.success
                   /\ last'.message = "Group not found in pending list"
                   /\ UNCHANGED <<Engine, loops, calls>>]_vars

\* a pending entry was cancelled before it was old enough to expire
C18_Witness ==
    /\ last.op = "cancelPending"
    /\ last.success
    /\ last.link \in DOMAIN failedGroups
    /\ failedGroups[last.link].status = "cancelled"
    /\ now - failedGroups[last.link].pendingSince <= AutoCancelAfter

\* C19: retryFailedGroups() with k entries in the failed-set leaves the
\* failed-set empty, appends exactly these k entries at the tail of the queue,
\* each with attempts 0, and returns k.
C19_RetryAll ==
    [][(last'.op = "retryFailedGroups" /\ last'.link = NoLink) =>
          LET k == Cardinality(DOMAIN failedGroups)
              old == Len(joinQueue)
          IN  /\ failedGroups' = EmptyMap
              /\ Len(joinQueue') = old + k
              /\ SubSeq(joinQueue', 1, old) = joinQueue
              /\ \A i \in (old + 1)..(old + k) : joinQueue'[i].attempts = 0
              /\ {joinQueue'[i].link : i \in (old + 1)..(old + k)}
                     = DOMAIN failedGroups
              /\ last'.count = k]_vars

\* two failed entries were put back at once
C19_Witness ==
    /\ last.op = "retryFailedGroups"
    /\ last.link = NoLink
    /\ last.count = 2
    /\ Len(joinQueue) = 2
    /\ failedGroups = EmptyMap

\* C20: retryFailedGroups(link) of a failed link appends that entry at the tail
\* of the queue with attempts 0, takes it out of the failed-set, leaves the
\* other failed entries as they are and returns 1; of any other link it returns
\* 0 and changes nothing.
C20_RetryOne ==
    [][(last'.op = "retryFailedGroups" /\ last'.link # NoLink) =>
          LET link == last'.link
          IN  IF link \in DOMAIN failedGroups
              THEN /\ Len(joinQueue') = Len(joinQueue) + 1
                   /\ SubSeq(joinQueue', 1, Len(joinQueue)) = joinQueue
                   /\ joinQueue'[Len(joinQueue')].link = link
                   /\ joinQueue'[Len(joinQueue')].attempts = 0
                   /\ DOMAIN failedGroups' = DOMAIN failedGroups \ {link}
                   /\ \A l \in DOMAIN failedGroups' :
                          failedGroups'[l] = failedGroups[l]
                   /\ UNCHANGED <<joinedGroups, pendingGroups, stats, isActive>>
                   /\ last'.count = 1
              ELSE /\ last'.count = 0
                   /\ UNCHANGED <<Engine, loops, calls>>]_vars

\* one of two failed entries was put back, the other is still failed
C20_Witness ==
    /\ last.op = "retryFailedGroups"
    /\ last.link # NoLink
    /\ last.count = 1
    /\ failedGroups # EmptyMap
    /\ joinQueue # <<>>
    /\ joinQueue[Len(joinQueue)].link = last.link

\* the attempts under way for a link
InFlight(bag, link) ==
    BagCardinality([loop \in {l \in BagToSet(bag) :
                                 l.pc = "joining" /\ l.group.link = link}
                       |-> bag[loop]])

\* C21: expired and cancelled are terminal. An entry of the failed-set with one
\* of these statuses stays there with its status in every step, no step adds an
\* entry for its link to the queue, and no step starts an attempt for its link.
C21_TerminalStatus ==
    [][\A l \in DOMAIN failedGroups :
          failedGroups[l].status \in {"expired", "cancelled"} =>
              /\ l \in DOMAIN failedGroups'
              /\ failedGroups'[l].status = failedGroups[l].status
              /\ Count(l, joinQueue') <= Count(l, joinQueue)
              /\ InFlight(loops', l) <= InFlight(loops, l)]_vars

\* C22: a failed entry is never retried on its own. In a step that is not
\* retryFailedGroups every link of the failed-set stays in it, gets no entry in
\* the queue, and no attempt starts for it.
C22_NoAutoRetry ==
    [][last'.op # "retryFailedGroups" =>
          \A l \in DOMAIN failedGroups :
              /\ l \in DOMAIN failedGroups'
              /\ Count(l, joinQueue') <= Count(l, joinQueue)
              /\ InFlight(loops', l) <= InFlight(loops, l)]_vars

C24_WriteFailureTolerated ==
    [][(last'.op = "stop" /\ isActive) =>
          /\ ~last'.raised
          /\ last'.success
          /\ last'.report.generated
          /\ ~isActive'
          /\ stats'.endTime = now]_vars

\* the reports that carry a success rate
HasReport == "report" \in DOMAIN last /\ last.report.generated

\* C28: the successRate of a report is 0 when totalAttempted is 0, and else
\* successful / totalAttempted * 100 rounded to one decimal (here in tenths of
\* a percent: no tenth is nearer to the quotient), of the counters the engine
\* has at stop().
C28_SuccessRate ==
    HasReport =>
        LET r == last.report
            total == r.stats.totalAttempted
            exact == r.stats.successful * 1000
            off == r.successRate * total - exact
        IN  /\ r.stats = stats
            /\ IF total = 0
               THEN r.successRate = 0
               ELSE /\ 2 * off <= total
                    /\ 2 * off > 0 - total

\* a report for two successes in three attempts: 66.7
C28_Witness ==
    /\ HasReport
    /\ last.report.stats.totalAttempted = 3
    /\ last.report.stats.successful = 2
    /\ last.report.successRate = 667

\* how many entries at the head of the queue have a link that is already joined
JoinedAtHead ==
    Cardinality({n \in 1..Len(joinQueue) :
                    \A i \in 1..n : joinQueue[i].link \in joinedGroups})

\* C29: a popped entry whose link is already joined counts as a success with no
\* Connector call. When a loop of the active engine comes back to the top of its
\* while with k such entries at the head of the queue, successful goes up by k,
\* these k entries leave the queue, the joined-set, the pending-set, the
\* failed-set and the other counters of attempts stay as they are, the rest of
\* the queue keeps its order, and the only call made is for the first entry
\* that is not joined.
C29_SkipJoined ==
    [][(last'.op = "resume" /\ last'.pc # "saving" /\ isActive) =>
          LET k == JoinedAtHead
              n == Len(joinQueue)
          IN  /\ stats'.successful = stats.successful + k
              /\ stats'.totalAttempted = stats.totalAttempted
              /\ stats'.failed = stats.failed
              /\ UNCHANGED <<joinedGroups, pendingGroups, failedGroups>>
              /\ \A l \in joinedGroups : InFlight(loops', l) <= InFlight(loops, l)
              /\ IF k < n
                 THEN /\ joinQueue' = SubSeq(joinQueue, k + 2, n)
                      /\ Attempting(loops', joinQueue[k + 1])
                             = Attempting(loops, joinQueue[k + 1]) + 1
                      /\ calls' <= calls + 1
                 ELSE /\ joinQueue' = <<>>
                      /\ calls' = calls]_vars

\* a loop has come back to the top and more successes are counted than attempts
\* were made: an entry was skipped
C29_Witness ==
    /\ last.op = "resume"
    /\ last.pc = "delay"
    /\ stats.successful > stats.totalAttempted
    /\ joinedGroups # {}

\* C30: every completed attempt adds one to exactly one of successful, failed
\* and pending and one to totalAttempted, so that during a run totalAttempted
\* equals successful + failed + pending.
C30_AttemptsAddUp ==
    isActive =>
        stats.totalAttempted = stats.successful + stats.failed + stats.pending

\* C25: the load at start is not fatal and goes collection by collection. When
\* init() gets to its loads, a collection whose file cannot be read or parsed
\* starts empty, every other collection holds what its own file holds, and the
\* pending checker is started.
C25_LoadPerCollection ==
    [][(last'.op = "init" /\ last'.mkdir) =>
          LET bad == last'.unreadable
          IN  /\ joinQueue' = IF "queue" \in bad THEN <<>> ELSE files.queue
              /\ joinedGroups' =
                     IF "joined" \in bad THEN {} ELSE DOMAIN files.joined
              /\ failedGroups' =
                     IF "failed" \in bad THEN EmptyMap ELSE files.failed
              /\ checker']_vars

\* the file of the queue could not be read: the queue starts empty although the
\* file holds entries, the joined-set is loaded from its file, and the checker
\* runs
C25_Witness ==
    /\ last.op = "init"
    /\ last.mkdir
    /\ last.unreadable = {"queue"}
    /\ files.queue # <<>>
    /\ joinQueue = <<>>
    /\ joinedGroups # {}
    /\ joinedGroups = DOMAIN files.joined
    /\ checker

\* C26: the state is durable. When no loop is under way, the store holds the
\* queue, the joined-set, the failed-set and the pending-set as the engine has
\* them, so that a restart which can read every file comes up with the same
\* four collections.
C26_Durable ==
    [][(last'.op = "init" /\ last'.mkdir /\ last'.unreadable = {}
            /\ loops = EmptyBag) =>
          /\ files.queue = joinQueue
          /\ DOMAIN files.joined = joinedGroups
          /\ files.failed = failedGroups
          /\ files.pending = pendingGroups
          /\ joinQueue' = joinQueue
          /\ joinedGroups' = joinedGroups
          /\ failedGroups' = failedGroups
          /\ pendingGroups' = pendingGroups]_vars

\* the pending request for a link that was made before the clock moved: it is
\* older than autoCancelAfter once the clock has moved
PendingAtStart(l) ==
    l \in DOMAIN pendingGroups /\ pendingGroups[l].pendingSince = 0

\* C27: every entry that enters the pending-set leaves it again while the
\* process runs: it is joined, or cancelled by cancelPending, or expired by the
\* next sweep once it is older than autoCancelAfter (or its link is attempted
\* again and a younger request takes its place). The sweep runs on its own
\* period, the engine active or not.
C27_PendingLeaves ==
    \A l \in Links : PendingAtStart(l) ~> ~PendingAtStart(l)

\* the loops that are in the pause between two attempts, or on their way to it
Pausing ==
    BagCardinality([loop \in {l \in BagToSet(loops) : l.pc \in {"delay", "saving"}}
                       |-> loops[loop]])

\* C32: pacing. A Connector call starts only when no other call is in flight
\* and no pause is owed: either the step is the end of a loop's pause, or no
\* loop is in a pause (the attempt before left the queue empty, or there was
\* none).
C32_Pacing ==
    [][calls' > calls =>
          /\ CallsInFlight = 0
          /\ IF last'.op = "resume" /\ last'.pc \in {"delay", "backoff"}
             THEN Pausing <= 1
             ELSE Pausing = 0]_vars

\* C33: when the Connector call throws, the loop goes into its short back-off
\* pause, and an entry whose error is recoverable and whose attempts are below
\* maxRetries is back in the queue.
C33_BackoffAfterThrow ==
    [][(last'.op = "joinLoop" /\ last'.error \in ConnectorErrors) =>
          /\ \E loop \in BagToSet(loops') : loop.pc = "backoff"
          /\ (isRecoverableError(last'.error)
                  /\ last'.group.attempts < maxRetries) =>
                 last'.group.link \in QueueLinks(joinQueue')]_vars

\* C34: the status of an entry names the state it is in: failed, expired or
\* cancelled in the failed-set, pending in the pending-set, queued in the queue.
C34_StatusNamesState ==
    /\ \A l \in DOMAIN failedGroups :
           failedGroups[l].status \in {"failed", "expired", "cancelled"}
    /\ \A l \in DOMAIN pendingGroups : pendingGroups[l].status = "pending"
    /\ \A i \in 1..Len(joinQueue) : joinQueue[i].status = "queued"

\* C35: removeFromQueue(link) takes out exactly the entries with that link,
\* keeps the others in their order and returns how many it took out;
\* clearQueue() empties the queue and returns how many entries it held; both
\* leave the joined-set, the pending-set, the failed-set, the counters and the
\* active flag as they are.
C35_RemoveAndClear ==
    [][/\ last'.op = "removeFromQueue" =>
              LET kept == {i \in 1..Len(joinQueue) :
                              joinQueue[i].link # last'.link}
              IN  /\ Len(joinQueue') = Cardinality(kept)
                  /\ \A i \in 1..Len(joinQueue') :
                         joinQueue'[i] =
                             joinQueue[CHOOSE k \in kept :
                                 Cardinality({j \in kept : j <= k}) = i]
                  /\ last'.count = Len(joinQueue) - Cardinality(kept)
                  /\ UNCHANGED <<joinedGroups, pendingGroups, failedGroups,
                                 stats, isActive>>
       /\ last'.op = "clearQueue" =>
              /\ joinQueue' = <<>>
              /\ last'.count = Len(joinQueue)
              /\ UNCHANGED <<joinedGroups, pendingGroups, failedGroups,
                             stats, isActive>>]_vars

\* removeFromQueue took out one of two entries and the other one is still queued
C35_Witness ==
    /\ last.op = "removeFromQueue"
    /\ last.count = 1
    /\ Len(joinQueue) = 1
    /\ joinQueue[1].link # last.link

\* C36: a link whose attempt is in flight is not enqueued again: addToQueue and
\* start() do not add an entry for it to the queue and start no second attempt
\* for it.
C36_NoEnqueueInFlight ==
    [][last'.op \in {"addToQueue", "start"} =>
          \A l \in Links :
              InFlight(loops, l) > 0 =>
                  /\ Count(l, joinQueue') <= Count(l, joinQueue)
                  /\ InFlight(loops', l) <= InFlight(loops, l)]_vars

\* C38: within a run successful never exceeds totalAttempted, and no report
\* states a success rate above 100%.
C38_RateAtMostHundred ==
    /\ isActive => stats.successful <= stats.totalAttempted
    /\ HasReport => last.report.successRate <= 1000

\* C39: the joined-set only grows, and no attempt starts for a link that is in
\* it.
C39_JoinedGrows ==
    [][/\ joinedGroups \subseteq joinedGroups'
       /\ \A l \in joinedGroups : InFlight(loops', l) <= InFlight(loops, l)]_vars

\* the only joined link was popped once more and passed over: two successes
\* counted in the run, no attempt under way
C39_Witness ==
    /\ Cardinality(joinedGroups) = 1
    /\ stats.successful = 2
    /\ stats.totalAttempted = 1
    /\ loops = EmptyBag
    /\ ~isActive

\* C31: a progress snapshot is written exactly when totalAttempted reaches a
\* multiple of 5: the step that ends such an attempt writes the queue, the
\* counters, the joined links and the pending entries as they are after it,
\* and no other step writes the snapshot.
C31_Checkpoint ==
    [][IF last'.op = "joinLoop" /\ stats'.totalAttempted % 5 = 0
       THEN /\ files'.progress.saved
            /\ files'.progress.queue = joinQueue'
            /\ files'.progress.stats = stats'
            /\ files'.progress.joinedGroups = joinedGroups'
            /\ {p.link : p \in files'.progress.pendingGroups}
                   = DOMAIN pendingGroups'
            /\ \A p \in files'.progress.pendingGroups :
                   p.pendingSince = pendingGroups'[p.link].pendingSince
       ELSE files'.progress = files.progress]_vars

\* the fifth attempt of a run has ended and the snapshot is in the store
C31_Witness ==
    /\ last.op = "joinLoop"
    /\ stats.totalAttempted = 5
    /\ files.progress.saved
    /\ files.progress.stats.totalAttempted = 5

\* C40: validation and extraction agree. Every entry accepted into the queue
\* has an invite code, so that no attempt ends with 'Invalid group link
\* format'.
C40_AcceptedHasCode ==
    /\ \A i \in 1..Len(joinQueue) : extractInviteCode(joinQueue[i].link) # NoCode
    /\ \A loop \in BagToSet(loops) :
           loop.pc = "joining" => extractInviteCode(loop.group.link) # NoCode
    /\ last.op = "joinLoop" => last.error # ErrInvalidFormat

\* C37: the load at startup discards no entry: every link that is in the queue
\* when loadQueue completes is in the queue after it.
C37_LoadKeepsEntries ==
    [][last'.op = "loadQueue" =>
          QueueLinks(joinQueue) \subseteq QueueLinks(joinQueue')]_vars

====
